---- MODULE Spec2Model ----
(***************************************************************************)
(* Resilience layer of OpenTerm (backend/app/core/resilience.py):          *)
(* TokenBucket, RateLimiter, CircuitBreaker, retry_with_backoff,           *)
(* SourceMetrics and SourceRegistry, and the request path that uses them   *)
(* (backend/app/adapters/base.py and the services).                        *)
(*                                                                         *)
(* Time.  time.time() is the variable now, counted in ticks of             *)
(* 60 / TicksPerMinute seconds; it only moves forward.                     *)
(*                                                                         *)
(* Tokens.  Token amounts are fixed-point numbers with TicksPerMinute      *)
(* units to one token, so that the refill rate requests_per_minute / 60.0  *)
(* tokens per second is exactly requests_per_minute units per tick.  The   *)
(* float arithmetic of the code is modelled by this exact arithmetic.      *)
(***************************************************************************)
EXTENDS Integers, Sequences, FiniteSets, TLC

\* ---------------------------------------------------------------- bounds
TicksPerMinute == 3
StartTime == 1
MaxTime == 6
MaxCapacity == 3
MaxRefillRate == 3
MaxAcquireCalls == 5
MaxThreshold == 3
MaxRecoveryTimeout == 2
MaxHalfOpenCalls == 2
MaxFailureCount == 5

VARIABLES
    now,        \* time.time()
    bucket,     \* a TokenBucket
    bucketLog,  \* what the callers of bucket have observed so far
    cb,         \* a CircuitBreaker
    cbLog,      \* what the callers of cb have observed so far
    retry,      \* one call of retry_with_backoff
    metrics,    \* a SourceMetrics
    stats,      \* the dict returned by the last metrics.get_stats()
    buckets,    \* rate_limiter._buckets
    sources,    \* source_registry._sources: the keys in insertion order and their values
    caller,     \* one call of rate_limiter.acquire_or_wait
    out         \* the last call made on rate_limiter or source_registry and what it
                \* returned; for an adapter, the fetch a service is making

vars == <<now, bucket, bucketLog, cb, cbLog, retry, metrics, stats,
          buckets, sources, caller, out>>

bucketVars == <<bucket, bucketLog>>
breakerVars == <<cb, cbLog>>
retryVars == <<retry>>
statsVars == <<metrics, stats>>
registryVars == <<buckets, sources, caller, out>>

Min(a, b) == IF a <= b THEN a ELSE b

\* One token, in token units.
OneToken == TicksPerMinute

\* ------------------------------------------------------------ TokenBucket
\* TokenBucket(capacity, refill_rate) at time t: __post_init__ fills it.
\* capacity is in tokens, rate in token units per tick.
TokenBucket(capacity, rate, t) ==
    [capacity |-> capacity * OneToken, refill_rate |-> rate,
     tokens |-> capacity * OneToken, last_refill |-> t]

TokenBucket_refill(b, t) ==
    [b EXCEPT !.tokens = Min(b.capacity, b.tokens + (t - b.last_refill) * b.refill_rate),
              !.last_refill = t]

TokenBucket_acquire_strict(b, t, tokens) ==
    LET r == TokenBucket_refill(b, t)
    IN  IF r.tokens > tokens
        THEN [bucket |-> [r EXCEPT !.tokens = r.tokens - tokens], ret |-> TRUE]
        ELSE [bucket |-> r, ret |-> FALSE]

\* acquire(tokens): the new bucket and the returned boolean.
TokenBucket_acquire(b, t, tokens) ==
    LET r == TokenBucket_refill(b, t)
    IN  IF r.tokens >= tokens
        THEN [bucket |-> [r EXCEPT !.tokens = r.tokens - tokens], ret |-> TRUE]
        ELSE [bucket |-> r, ret |-> FALSE]

\* wait_time(tokens): the new bucket and the returned wait, kept as the
\* fraction num / den ticks; needed / self.refill_rate raises
\* ZeroDivisionError when refill_rate is 0.0, after the refill was made.
TokenBucket_wait_time(b, t, tokens) ==
    LET r == TokenBucket_refill(b, t)
    IN  IF r.tokens >= tokens
        THEN [bucket |-> r, num |-> 0, den |-> 1, raised |-> "none"]
        ELSE [bucket |-> r, num |-> tokens - r.tokens, den |-> r.refill_rate,
              raised |-> IF r.refill_rate = 0 THEN "ZeroDivisionError" ELSE "none"]

\* --------------------------------------------------------- CircuitBreaker
CLOSED == "closed"
OPEN == "open"
HALF_OPEN == "half_open"
CircuitState == {CLOSED, OPEN, HALF_OPEN}

CircuitBreaker(failure_threshold, recovery_timeout, half_open_max_calls) ==
    [failure_threshold |-> failure_threshold,
     recovery_timeout |-> recovery_timeout,
     half_open_max_calls |-> half_open_max_calls,
     state |-> CLOSED, failure_count |-> 0,
     last_failure_time |-> 0, half_open_calls |-> 0]

CircuitBreaker_is_available_eager(c, t) ==
    IF c.state = CLOSED THEN [cb |-> c, ret |-> TRUE]
    ELSE IF c.state = OPEN
         THEN [cb |-> [c EXCEPT !.state = HALF_OPEN, !.half_open_calls = 0],
               ret |-> TRUE]
         ELSE [cb |-> c, ret |-> c.half_open_calls < c.half_open_max_calls]

CircuitBreaker_is_available_keep_calls(c, t) ==
    IF c.state = CLOSED THEN [cb |-> c, ret |-> TRUE]
    ELSE IF c.state = OPEN
         THEN IF t - c.last_failure_time >= c.recovery_timeout
              THEN [cb |-> [c EXCEPT !.state = HALF_OPEN], ret |-> TRUE]
              ELSE [cb |-> c, ret |-> FALSE]
         ELSE [cb |-> c, ret |-> c.half_open_calls < c.half_open_max_calls]

\* is_available(): the new breaker and the returned boolean.
CircuitBreaker_is_available(c, t) ==
    IF c.state = CLOSED THEN [cb |-> c, ret |-> TRUE]
    ELSE IF c.state = OPEN
         THEN IF t - c.last_failure_time >= c.recovery_timeout
              THEN [cb |-> [c EXCEPT !.state = HALF_OPEN, !.half_open_calls = 0],
                    ret |-> TRUE]
              ELSE [cb |-> c, ret |-> FALSE]
         ELSE [cb |-> c, ret |-> c.half_open_calls < c.half_open_max_calls]

CircuitBreaker_record_success_decrement(c) ==
    IF c.state = HALF_OPEN
    THEN LET n == c.half_open_calls + 1
         IN  IF n >= c.half_open_max_calls
             THEN [c EXCEPT !.half_open_calls = n, !.state = CLOSED, !.failure_count = 0]
             ELSE [c EXCEPT !.half_open_calls = n]
    ELSE IF c.state = CLOSED
         THEN [c EXCEPT !.failure_count = IF c.failure_count > 0 THEN c.failure_count - 1 ELSE 0]
         ELSE c

CircuitBreaker_record_success_late(c) ==
    IF c.state = HALF_OPEN
    THEN LET n == c.half_open_calls + 1
         IN  IF n > c.half_open_max_calls
             THEN [c EXCEPT !.half_open_calls = n, !.state = CLOSED, !.failure_count = 0]
             ELSE [c EXCEPT !.half_open_calls = n]
    ELSE IF c.state = CLOSED THEN [c EXCEPT !.failure_count = 0]
         ELSE c

CircuitBreaker_record_success_closes_open(c) ==
    IF c.state = HALF_OPEN
    THEN LET n == c.half_open_calls + 1
         IN  IF n >= c.half_open_max_calls
             THEN [c EXCEPT !.half_open_calls = n, !.state = CLOSED, !.failure_count = 0]
             ELSE [c EXCEPT !.half_open_calls = n]
    ELSE [c EXCEPT !.state = CLOSED, !.failure_count = 0]

CircuitBreaker_record_success(c) ==
    IF c.state = HALF_OPEN
    THEN LET n == c.half_open_calls + 1
         IN  IF n >= c.half_open_max_calls
             THEN [c EXCEPT !.half_open_calls = n, !.state = CLOSED, !.failure_count = 0]
             ELSE [c EXCEPT !.half_open_calls = n]
    ELSE IF c.state = CLOSED THEN [c EXCEPT !.failure_count = 0]
         ELSE c

CircuitBreaker_record_failure_after(c, t) ==
    LET f == [c EXCEPT !.failure_count = c.failure_count + 1, !.last_failure_time = t]
    IN  IF f.state = HALF_OPEN THEN [f EXCEPT !.state = OPEN]
        ELSE IF f.failure_count > f.failure_threshold THEN [f EXCEPT !.state = OPEN]
        ELSE f

CircuitBreaker_record_failure_closed_only(c, t) ==
    LET f == [c EXCEPT !.failure_count = c.failure_count + 1, !.last_failure_time = t]
    IN  IF f.state = CLOSED /\ f.failure_count >= f.failure_threshold
        THEN [f EXCEPT !.state = OPEN]
        ELSE f

CircuitBreaker_record_failure_keep_time(c, t) ==
    LET f == [c EXCEPT !.failure_count = c.failure_count + 1,
                       !.last_failure_time = IF c.state = OPEN THEN @ ELSE t]
    IN  IF f.state = HALF_OPEN THEN [f EXCEPT !.state = OPEN]
        ELSE IF f.failure_count >= f.failure_threshold THEN [f EXCEPT !.state = OPEN]
        ELSE f

\* record_failure() at time t.
CircuitBreaker_record_failure(c, t) ==
    LET f == [c EXCEPT !.failure_count = c.failure_count + 1, !.last_failure_time = t]
    IN  IF f.state = HALF_OPEN THEN [f EXCEPT !.state = OPEN]
        ELSE IF f.failure_count >= f.failure_threshold THEN [f EXCEPT !.state = OPEN]
        ELSE f

\* ----------------------------------------------------- retry_with_backoff
RECURSIVE Pow2(_)
Pow2(n) == IF n = 0 THEN 1 ELSE 2 * Pow2(n - 1)

backoff_delay_unclamped(attempt, base_delay, max_delay, jitter_draw) ==
    base_delay * Pow2(attempt) * (100 + jitter_draw)

\* The delay slept after the failure of attempt number attempt (from 0), in
\* hundredths of a tick; jitter_draw is the value random.uniform(-jitter,
\* jitter) returned, in hundredths.
backoff_delay(attempt, base_delay, max_delay, jitter_draw) ==
    Min(base_delay * Pow2(attempt), max_delay) * (100 + jitter_draw)

\* An exception instance: id tells the instances apart.  do_request raises
\* SourceTimeoutError (retryable) or SourceError, retryable or not.
NoError == [id |-> 0, kind |-> "none", retryable |-> FALSE]
ErrorKinds == {"SourceError", "SourceTimeoutError"}
ErrorForms ==
    {[kind |-> "SourceError", retryable |-> TRUE],
     [kind |-> "SourceError", retryable |-> FALSE],
     [kind |-> "SourceTimeoutError", retryable |-> TRUE]}
Error(id, form) == [id |-> id, kind |-> form.kind, retryable |-> form.retryable]

\* The frame of retry_with_backoff(fn, max_retries, base_delay, max_delay,
\* jitter) when it starts.  calls, sleeps and thrown count the fn() calls
\* and the sleeps, and list the exceptions fn raised.
retry_with_backoff(max_retries, base_delay, max_delay, jitter) ==
    [max_retries |-> max_retries, base_delay |-> base_delay,
     max_delay |-> max_delay, jitter |-> jitter,
     pc |-> "call", attempt |-> 0, last_error |-> NoError,
     delay |-> 0, slept_at |-> 0, result |-> 0, raised |-> NoError,
     calls |-> 0, sleeps |-> 0, thrown |-> <<>>]

retry_except_first(r, e, jitter_draw, t) ==
    LET r1 == [r EXCEPT !.last_error = IF r.last_error = NoError THEN e ELSE r.last_error]
    IN  IF r1.attempt = r1.max_retries
        THEN [r1 EXCEPT !.pc = "raised", !.raised = r1.last_error]
        ELSE [r1 EXCEPT !.pc = "sleep",
                        !.delay = backoff_delay(r1.attempt, r1.base_delay, r1.max_delay, jitter_draw),
                        !.slept_at = t, !.sleeps = @ + 1]

retry_except_retryable_only(r, e, jitter_draw, t) ==
    LET r1 == [r EXCEPT !.last_error = e]
    IN  IF r1.attempt = r1.max_retries \/ ~e.retryable
        THEN [r1 EXCEPT !.pc = "raised", !.raised = r1.last_error]
        ELSE [r1 EXCEPT !.pc = "sleep",
                        !.delay = backoff_delay(r1.attempt, r1.base_delay, r1.max_delay, jitter_draw),
                        !.slept_at = t, !.sleeps = @ + 1]

\* The except clause, entered at time t with the exception e of fn(): break
\* out of the loop and raise last_error, or start the backoff sleep.
retry_except(r, e, jitter_draw, t) ==
    LET r1 == [r EXCEPT !.last_error = e]
    IN  IF r1.attempt = r1.max_retries
        THEN [r1 EXCEPT !.pc = "raised", !.raised = r1.last_error]
        ELSE [r1 EXCEPT !.pc = "sleep",
                        !.delay = backoff_delay(r1.attempt, r1.base_delay, r1.max_delay, jitter_draw),
                        !.slept_at = t, !.sleeps = @ + 1]

\* ---------------------------------------------------------- SourceMetrics
METRICS_WINDOW_SECONDS == 300
\* The metrics window in ticks.
MetricsWindow == (METRICS_WINDOW_SECONDS * TicksPerMinute) \div 60

\* deque(maxlen=1000)
RequestsMaxLen == 1000

\* Latencies are in thousandths of a millisecond.
RequestRecord(timestamp, latency_ms, success) ==
    [timestamp |-> timestamp, latency_ms |-> latency_ms, success |-> success]

SourceMetrics(source, circuit_breaker, enabled) ==
    [source |-> source, circuit_breaker |-> circuit_breaker,
     requests |-> <<>>, enabled |-> enabled]

DequeAppend_unbounded(q, x) == Append(q, x)

\* deque.append on a deque with maxlen.
DequeAppend(q, x) ==
    IF Len(q) >= RequestsMaxLen THEN Append(Tail(q), x) ELSE Append(q, x)

SourceMetrics_record_request(m, latency_ms, success, t) ==
    [m EXCEPT !.requests = DequeAppend(@, RequestRecord(t, latency_ms, success)),
              !.circuit_breaker = IF success
                                  THEN CircuitBreaker_record_success(@)
                                  ELSE CircuitBreaker_record_failure(@, t)]

SourceMetrics_prune_old_records(m, t) ==
    LET cutoff == t - MetricsWindow
    IN  SelectSeq(m.requests, LAMBDA r : r.timestamp >= cutoff)

\* sorted(): the stable ascending order.  SortRank(q, i) is the position
\* that q[i] takes in it.
SortRank(q, i) ==
    Cardinality({j \in 1..Len(q) : q[j] < q[i] \/ (q[j] = q[i] /\ j < i)}) + 1

sorted(q) ==
    [k \in 1..Len(q) |-> q[CHOOSE i \in 1..Len(q) : SortRank(q, i) = k]]

P95Index_nearest_rank(n) == ((n * 95 + 99) \div 100) - 1

\* int(len(latencies) * 0.95): the double product n * 0.95 truncates to
\* floor(95 n / 100) for every n up to the deque's maxlen.
P95Index(n) == (n * 95) \div 100

\* round(x, 2) of a latency in thousandths whose last digit is not 5.
Round2(x) == ((x + 5) \div 10) * 10

\* get_stats() at time t: the new metrics (is_available() may half-open the
\* breaker) and the returned dict.  failure_rate is kept as a fraction.
SourceMetrics_get_stats(m, t) ==
    LET records == SourceMetrics_prune_old_records(m, t)
        total == Len(records)
        failures == Len(SelectSeq(records, LAMBDA r : ~r.success))
        successes == SelectSeq(records, LAMBDA r : r.success)
        latencies == sorted([i \in 1..Len(successes) |-> successes[i].latency_ms])
        p95_latency == IF latencies # <<>>
                       THEN latencies[Min(P95Index(Len(latencies)), Len(latencies) - 1) + 1]
                       ELSE 0
        circuit_state == m.circuit_breaker.state
        a == CircuitBreaker_is_available(m.circuit_breaker, t)
    IN  [metrics |-> [m EXCEPT !.circuit_breaker = a.cb],
         stats |-> [source |-> m.source,
                    enabled |-> m.enabled,
                    circuit_state |-> circuit_state,
                    is_available |-> a.ret,
                    requests_last_5m |-> total,
                    failures_last_5m |-> failures,
                    failure_rate |-> IF total > 0 THEN <<failures * 100, total>> ELSE <<0, 1>>,
                    p95_latency_ms |-> Round2(p95_latency)]]

\* ------------------------------------------------------------ RateLimiter
\* register(source, requests_per_minute) at time t: capacity =
\* requests_per_minute tokens, refill_rate = requests_per_minute / 60.0
\* tokens per second, which is requests_per_minute token units per tick.
RateLimiter_register(bs, source, requests_per_minute, t) ==
    (source :> TokenBucket(requests_per_minute, requests_per_minute, t)) @@ bs

\* acquire(source): True for a source that has no bucket.
RateLimiter_acquire(bs, source, t) ==
    IF source \notin DOMAIN bs THEN [buckets |-> bs, ret |-> TRUE]
    ELSE LET a == TokenBucket_acquire(bs[source], t, OneToken)
         IN  [buckets |-> [bs EXCEPT ![source] = a.bucket], ret |-> a.ret]

RateLimiter_wait_time(bs, source, t) ==
    IF source \notin DOMAIN bs THEN [buckets |-> bs, num |-> 0, den |-> 1, raised |-> "none"]
    ELSE LET w == TokenBucket_wait_time(bs[source], t, OneToken)
         IN  [buckets |-> [bs EXCEPT ![source] = w.bucket], num |-> w.num, den |-> w.den,
              raised |-> w.raised]

\* acquire_or_wait(source, max_wait: float = 30.0), max_wait in seconds.
DefaultMaxWait == 30

\* RateLimitError(source, retry_after: int = 60)
DefaultRetryAfter == 60
RateLimitError(source, retry_after) ==
    [code |-> "RATE_LIMITED", source |-> source, retryable |-> TRUE,
     retry_after |-> retry_after]
NoRateLimitError == [code |-> "none"]

\* OpenTermError.to_dict() of a RateLimitError: retry_after_seconds is
\* present when retry_after is truthy, that is when it is not 0.
OpenTermError_to_dict(e) ==
    [code |-> e.code, source |-> e.source, retryable |-> e.retryable,
     retry_after_seconds |-> IF e.retry_after # 0 THEN <<e.retry_after>> ELSE <<>>]

\* The frame of a caller that is not inside acquire_or_wait; sleeps counts
\* the asyncio.sleep calls of the frame.
IdleCaller ==
    [pc |-> "idle", source |-> "none", max_wait |-> 0, num |-> 0, den |-> 1,
     slept_at |-> 0, sleeps |-> 0, error |-> NoRateLimitError]

acquire_or_wait_finish_again(bs, f, t) ==
    LET a == RateLimiter_acquire(bs, f.source, t)
        w == RateLimiter_wait_time(a.buckets, f.source, t)
    IN  IF a.ret
        THEN [buckets |-> a.buckets, frame |-> [f EXCEPT !.pc = "returned"]]
        ELSE [buckets |-> w.buckets,
              frame |-> [f EXCEPT !.pc = "sleeping", !.num = w.num, !.den = w.den,
                                  !.slept_at = t, !.sleeps = @ + 1]]

acquire_or_wait_finish_unchecked(bs, f, t) ==
    LET a == RateLimiter_acquire(bs, f.source, t)
    IN  [buckets |-> a.buckets, frame |-> [f EXCEPT !.pc = "returned"]]

\* The last lines of acquire_or_wait: acquire, return or raise.
acquire_or_wait_finish(bs, f, t) ==
    LET a == RateLimiter_acquire(bs, f.source, t)
    IN  [buckets |-> a.buckets,
         frame |-> IF a.ret
                   THEN [f EXCEPT !.pc = "returned"]
                   ELSE [f EXCEPT !.pc = "raised",
                                  !.error = RateLimitError(f.source, DefaultRetryAfter)]]

\* acquire_or_wait(source, max_wait) called at time t, up to its return,
\* its raise or its sleep.  The wait is num / den ticks, a tick is
\* 60 / TicksPerMinute seconds, and int(wait) truncates the seconds; an
\* exception of wait_time() passes through.
acquire_or_wait(bs, source, max_wait, t) ==
    LET w == RateLimiter_wait_time(bs, source, t)
        f == [IdleCaller EXCEPT !.source = source, !.max_wait = max_wait,
                                !.num = w.num, !.den = w.den]
    IN  IF w.raised # "none"
        THEN [buckets |-> w.buckets,
              frame |-> [f EXCEPT !.pc = "raised", !.error = [code |-> w.raised]]]
        ELSE IF w.num * 60 > max_wait * w.den * TicksPerMinute
        THEN [buckets |-> w.buckets,
              frame |-> [f EXCEPT !.pc = "raised",
                                  !.error = RateLimitError(source,
                                      (w.num * 60) \div (w.den * TicksPerMinute))]]
        ELSE IF w.num > 0
             THEN [buckets |-> w.buckets,
                   frame |-> [f EXCEPT !.pc = "sleeping", !.slept_at = t, !.sleeps = @ + 1]]
             ELSE acquire_or_wait_finish(w.buckets, f, t)

\* --------------------------------------------------------- SourceRegistry
\* half_open_max_calls: int = 3, which register() never overrides.
DefaultHalfOpenMaxCalls == 3

NoSources == [keys |-> <<>>, metrics |-> <<>>]
SeqRange(q) == {q[i] : i \in 1..Len(q)}
Registered(reg) == SeqRange(reg.keys)

\* _sources[source] = value: a new key goes last, an old key keeps its place.
DictSet(reg, source, value) ==
    [keys |-> IF source \in Registered(reg) THEN reg.keys ELSE Append(reg.keys, source),
     metrics |-> (source :> value) @@ reg.metrics]

SourceRegistry_register(reg, source, enabled, failure_threshold, recovery_timeout) ==
    DictSet(reg, source,
            SourceMetrics(source,
                          CircuitBreaker(failure_threshold, recovery_timeout,
                                         DefaultHalfOpenMaxCalls),
                          enabled))

SourceRegistry_is_available_breaker_only(reg, source, t) ==
    IF source \notin Registered(reg) THEN [sources |-> reg, ret |-> TRUE]
    ELSE LET a == CircuitBreaker_is_available(reg.metrics[source].circuit_breaker, t)
         IN  [sources |-> [reg EXCEPT !.metrics[source].circuit_breaker = a.cb],
              ret |-> a.ret]

\* is_available(source): enabled and circuit_breaker.is_available(), where
\* the breaker is not asked when the source is disabled.
SourceRegistry_is_available(reg, source, t) ==
    IF source \notin Registered(reg) THEN [sources |-> reg, ret |-> TRUE]
    ELSE LET m == reg.metrics[source]
             a == CircuitBreaker_is_available(m.circuit_breaker, t)
         IN  IF ~m.enabled THEN [sources |-> reg, ret |-> FALSE]
             ELSE [sources |-> [reg EXCEPT !.metrics[source].circuit_breaker = a.cb],
                   ret |-> a.ret]

SourceRegistry_record_request_setdefault(reg, source, latency_ms, success, t) ==
    LET r == IF source \in Registered(reg) THEN reg
             ELSE SourceRegistry_register(reg, source, TRUE, 5, 1)
    IN  [r EXCEPT !.metrics[source] =
                      SourceMetrics_record_request(@, latency_ms, success, t)]

SourceRegistry_record_request(reg, source, latency_ms, success, t) ==
    IF source \notin Registered(reg) THEN reg
    ELSE [reg EXCEPT !.metrics[source] =
                         SourceMetrics_record_request(@, latency_ms, success, t)]

\* get_all_stats(): the new registry and the list of dicts, in key order.
SourceRegistry_get_all_stats(reg, t) ==
    [sources |-> [reg EXCEPT !.metrics =
                      [s \in DOMAIN reg.metrics |->
                          SourceMetrics_get_stats(reg.metrics[s], t).metrics]],
     stats |-> [i \in 1..Len(reg.keys) |->
                   SourceMetrics_get_stats(reg.metrics[reg.keys[i]], t).stats]]

SourceRegistry_get_health_summary_breakers_only(reg, t) ==
    LET g == SourceRegistry_get_all_stats(reg, t)
        degraded == SelectSeq(g.stats, LAMBDA st : st.circuit_state # CLOSED)
    IN  [sources |-> g.sources,
         ret |-> [status |-> IF degraded = <<>> THEN "healthy" ELSE "degraded",
                  sources |-> g.stats,
                  degraded_sources |-> [i \in 1..Len(degraded) |-> degraded[i].source]]]

SourceRegistry_get_health_summary(reg, t) ==
    LET g == SourceRegistry_get_all_stats(reg, t)
        degraded == SelectSeq(g.stats, LAMBDA st : st.circuit_state # CLOSED \/ ~st.enabled)
    IN  [sources |-> g.sources,
         ret |-> [status |-> IF degraded = <<>> THEN "healthy" ELSE "degraded",
                  sources |-> g.stats,
                  degraded_sources |-> [i \in 1..Len(degraded) |-> degraded[i].source]]]

\* ------------------------------------------------------------------ clock
Tick ==
    /\ now < MaxTime
    /\ now' = now + 1

\* ------------------------------------------- a TokenBucket and its callers
NoBucket == [capacity |-> 0, refill_rate |-> 0, tokens |-> 0, last_refill |-> 0]
NoBucketLog ==
    [created |-> 0, calls |-> 0, granted |-> 0, op |-> "none", ret |-> 0, raised |-> "none"]
NoBreaker == CircuitBreaker(0, 0, 0)
NoBreakerLog ==
    [before |-> NoBreaker, at |-> 0, op |-> "none", ret |-> FALSE,
     others |-> 0, streak |-> 0, episode |-> 0, failed_at |-> 0, admitted |-> 0]

NoRetry == retry_with_backoff(0, 0, 0, 0)
NoMetrics == SourceMetrics("none", NoBreaker, FALSE)
NoStats == [source |-> "none"]

\* The parts of the state a specification does not use.
BucketIdle == bucket = NoBucket /\ bucketLog = NoBucketLog
BreakerIdle == cb = NoBreaker /\ cbLog = NoBreakerLog
RetryIdle == retry = NoRetry
StatsIdle == metrics = NoMetrics /\ stats = NoStats
\* A returned boolean.
Bool(b) == [value |-> b]
\* The record of a call: the method, its source argument, what it returned,
\* the two registries as the call found them and the time of the call.
Call(op, source, ret, bs, reg, t) ==
    [op |-> op, source |-> source, ret |-> ret,
     before |-> [buckets |-> bs, sources |-> reg], at |-> t]
NoOut == Call("none", "none", Bool(FALSE), <<>>, NoSources, 0)
RegistryIdle ==
    buckets = <<>> /\ sources = NoSources /\ caller = IdleCaller /\ out = NoOut

\* A bucket of any capacity and positive rate, or the bucket that
\* register(source, 0) makes: capacity 0, refill_rate 0 / 60.0.  bucketLog
\* keeps the last call, what it returned and the exception it raised.
BucketInit ==
    /\ now = StartTime
    /\ \/ \E c \in 1..MaxCapacity, r \in 1..MaxRefillRate : bucket = TokenBucket(c, r, now)
       \/ bucket = TokenBucket(0, 0, now)
    /\ bucketLog = [created |-> now, calls |-> 0, granted |-> 0, op |-> "new", ret |-> 0,
                    raised |-> "none"]
    /\ BreakerIdle /\ RetryIdle /\ StatsIdle /\ RegistryIdle

\* bucket.acquire()
BucketAcquire ==
    /\ bucketLog.calls < MaxAcquireCalls
    /\ LET a == TokenBucket_acquire(bucket, now, OneToken)
       IN  /\ bucket' = a.bucket
           /\ bucketLog' = [bucketLog EXCEPT !.calls = @ + 1,
                                             !.granted = IF a.ret THEN @ + 1 ELSE @,
                                             !.op = "acquire", !.ret = a.ret,
                                             !.raised = "none"]
    /\ UNCHANGED <<now, breakerVars, retryVars, statsVars, registryVars>>

\* bucket.wait_time()
BucketWaitTime ==
    /\ LET w == TokenBucket_wait_time(bucket, now, OneToken)
       IN  /\ bucket' = w.bucket
           /\ bucketLog' = [bucketLog EXCEPT !.op = "wait_time", !.ret = <<w.num, w.den>>,
                                             !.raised = w.raised]
    /\ UNCHANGED <<now, breakerVars, retryVars, statsVars, registryVars>>

BucketTick == Tick /\ UNCHANGED <<bucketVars, breakerVars, retryVars, statsVars, registryVars>>

BucketNext == BucketAcquire \/ BucketWaitTime \/ BucketTick

SpecBucket == BucketInit /\ [][BucketNext]_vars

\* ---------------------------------------- a CircuitBreaker and its callers
\* cbLog describes the last call made on cb: the breaker before the call, the
\* time of the call, the method and its return value; and three counts of
\* the calls so far: others, the calls other than record_failure() since
\* construction (counted up to 2); streak, the record_failure() calls since
\* the last record_success() (or construction); episode, the
\* record_success() calls since the breaker last entered HALF_OPEN;
\* failed_at, the time of the last record_failure() call, 0 while there was
\* none (the clock starts at StartTime); and admitted, while the breaker is
\* HALF_OPEN, the is_available() calls that returned True since it entered
\* HALF_OPEN, the entering call included (counted up to
\* MaxHalfOpenCalls + 1).
BreakerInit ==
    /\ now = StartTime
    /\ \E th \in 1..MaxThreshold, rt \in 0..MaxRecoveryTimeout, h \in 1..MaxHalfOpenCalls :
          cb = CircuitBreaker(th, rt, h)
    /\ cbLog = [before |-> cb, at |-> now, op |-> "new", ret |-> FALSE,
                others |-> 0, streak |-> 0, episode |-> 0, failed_at |-> 0, admitted |-> 0]
    /\ BucketIdle /\ RetryIdle /\ StatsIdle /\ RegistryIdle

BreakerIsAvailable ==
    /\ LET a == CircuitBreaker_is_available(cb, now)
       IN  /\ cb' = a.cb
           /\ cbLog' = [cbLog EXCEPT !.before = cb, !.at = now,
                                     !.op = "is_available", !.ret = a.ret,
                                     !.others = Min(@ + 1, 2),
                                     !.episode = IF cb.state # HALF_OPEN /\ a.cb.state = HALF_OPEN
                                                 THEN 0 ELSE @,
                                     !.admitted =
                                         IF a.cb.state # HALF_OPEN THEN 0
                                         ELSE IF cb.state # HALF_OPEN THEN 1
                                         ELSE IF a.ret THEN Min(@ + 1, MaxHalfOpenCalls + 1)
                                         ELSE @]
    /\ UNCHANGED <<now, bucketVars, retryVars, statsVars, registryVars>>

BreakerRecordSuccess ==
    /\ cb' = CircuitBreaker_record_success(cb)
    /\ cbLog' = [cbLog EXCEPT !.before = cb, !.at = now,
                              !.op = "record_success", !.ret = FALSE,
                              !.others = Min(@ + 1, 2), !.streak = 0,
                              !.episode = Min(@ + 1, MaxHalfOpenCalls + 1),
                              !.admitted = IF cb'.state = HALF_OPEN THEN @ ELSE 0]
    /\ UNCHANGED <<now, bucketVars, retryVars, statsVars, registryVars>>

BreakerRecordFailure ==
    /\ cb.failure_count < MaxFailureCount
    /\ cb' = CircuitBreaker_record_failure(cb, now)
    /\ cbLog' = [cbLog EXCEPT !.before = cb, !.at = now,
                              !.op = "record_failure", !.ret = FALSE,
                              !.streak = @ + 1, !.failed_at = now,
                              !.admitted = IF cb'.state = HALF_OPEN THEN @ ELSE 0]
    /\ UNCHANGED <<now, bucketVars, retryVars, statsVars, registryVars>>

BreakerTick == Tick /\ UNCHANGED <<bucketVars, breakerVars, retryVars, statsVars, registryVars>>

BreakerNext ==
    BreakerIsAvailable \/ BreakerRecordSuccess \/ BreakerRecordFailure \/ BreakerTick

SpecBreaker == BreakerInit /\ [][BreakerNext]_vars

\* ------------------------------------------ one call of retry_with_backoff
MaxRetries == 2
MaxBaseDelay == 2
MaxMaxDelay == 3
MaxJitter == 50

RetryInit ==
    /\ now = StartTime
    /\ \E mr \in 0..MaxRetries, bd \in 1..MaxBaseDelay, md \in 1..MaxMaxDelay,
          j \in {0, MaxJitter} :
          retry = retry_with_backoff(mr, bd, md, j)
    /\ BucketIdle /\ BreakerIdle /\ StatsIdle /\ RegistryIdle

\* await fn() raises: a new exception instance of some kind.
RetryAttemptFails ==
    /\ retry.pc = "call"
    /\ \E form \in ErrorForms, u \in {0 - retry.jitter, 0, retry.jitter} :
          LET e == Error(retry.calls + 1, form)
              r == [retry EXCEPT !.calls = @ + 1, !.thrown = Append(@, e)]
          IN  retry' = retry_except(r, e, u, now)
    /\ UNCHANGED <<now, bucketVars, breakerVars, statsVars, registryVars>>

\* await fn() returns: the result is named after the attempt that made it.
RetryAttemptReturns ==
    /\ retry.pc = "call"
    /\ retry' = [retry EXCEPT !.calls = @ + 1, !.pc = "returned", !.result = retry.calls + 1]
    /\ UNCHANGED <<now, bucketVars, breakerVars, statsVars, registryVars>>

\* asyncio.sleep(delay) is over: the next iteration of the loop.
RetryWake ==
    /\ retry.pc = "sleep"
    /\ (now - retry.slept_at) * 100 >= retry.delay
    /\ retry' = [retry EXCEPT !.pc = "call", !.attempt = @ + 1]
    /\ UNCHANGED <<now, bucketVars, breakerVars, statsVars, registryVars>>

RetryTick == Tick /\ UNCHANGED <<bucketVars, breakerVars, retryVars, statsVars, registryVars>>

RetryNext == RetryAttemptFails \/ RetryAttemptReturns \/ RetryWake \/ RetryTick

SpecRetry == RetryInit /\ [][RetryNext]_vars

\* -------------------------------------------- get_stats() as a function
MaxRamp == 100
MaxRecords == 2
LatencyValues == {1234, 5678}

\* n successful requests with latencies n, n-1, ..., 1 ms, recorded at t.
Ramp(n, t) == [i \in 1..n |-> RequestRecord(t, (n + 1 - i) * 1000, TRUE)]

StatsTime == StartTime + MetricsWindow + 1

StatsInit ==
    /\ now = StatsTime
    /\ \E q \in {Ramp(n, now) : n \in 1..MaxRamp}
            \cup UNION {[1..k -> [timestamp : {StartTime, now - MetricsWindow, now},
                                  latency_ms : LatencyValues,
                                  success : BOOLEAN]] : k \in 0..MaxRecords} :
          metrics = [SourceMetrics("stooq", CircuitBreaker(5, 3, 3), TRUE) EXCEPT !.requests = q]
    /\ stats = NoStats
    /\ BucketIdle /\ BreakerIdle /\ RetryIdle /\ RegistryIdle

StatsGetStats ==
    /\ LET g == SourceMetrics_get_stats(metrics, now)
       IN  metrics' = g.metrics /\ stats' = g.stats
    /\ UNCHANGED <<now, bucketVars, breakerVars, retryVars, registryVars>>

StatsNext == StatsGetStats

SpecStats == StatsInit /\ [][StatsNext]_vars

\* ------------------------ rate_limiter, source_registry and their callers
MaxRpm == 7
MaxRegistryTime == 3
MaxRegistryThreshold == 2
RegistryRecovery == 1
MaxRequests == 2
RegistryLatency == 1230

\* The sources the program registers, and a name it never registers.
\* The max_wait a caller passes: the default, or a few seconds.
ShortMaxWait == 5
MaxWaits == {DefaultMaxWait, ShortMaxWait}

SourceNames == {"stooq", "yahoo_finance"}
UnregisteredSource == "unregistered-source"
Names == SourceNames \cup {UnregisteredSource}

\* rate_limiter after startup: nothing registered, or a limit for stooq.
LimiterStartups ==
    {<<>>} \cup {RateLimiter_register(<<>>, "stooq", rpm, StartTime) : rpm \in 1..MaxRpm}

\* source_registry after its initialisation: nothing registered, stooq, or
\* stooq and then yahoo_finance, each enabled or disabled by the settings;
\* yahoo_finance is given the lowest threshold.
RegistryStartups ==
    LET one == {SourceRegistry_register(NoSources, "stooq", e, th, RegistryRecovery) :
                    e \in BOOLEAN, th \in 1..MaxRegistryThreshold}
        two == UNION {{SourceRegistry_register(r, "yahoo_finance", e, 1, RegistryRecovery) :
                           e \in BOOLEAN} : r \in one}
    IN  {NoSources} \cup one \cup two

\* The two registries share no state: a run populates one of them and
\* calls both.
RegistryInit ==
    /\ now = StartTime
    /\ \E l \in LimiterStartups, r \in RegistryStartups :
          /\ l = <<>> \/ r = NoSources
          /\ buckets = l
          /\ sources = r
    /\ caller = IdleCaller
    /\ out = NoOut
    /\ BucketIdle /\ BreakerIdle /\ RetryIdle /\ StatsIdle

RegistryRest == <<bucketVars, breakerVars, retryVars, statsVars>>

\* The records held for all sources together.
RECURSIVE TotalRequests(_, _)
TotalRequests(reg, i) ==
    IF i = 0 THEN 0
    ELSE Len(reg.metrics[reg.keys[i]].requests) + TotalRequests(reg, i - 1)

\* rate_limiter.acquire(source)
RegistryAcquire(source) ==
    /\ LET a == RateLimiter_acquire(buckets, source, now)
       IN  /\ buckets' = a.buckets
           /\ out' = Call("acquire", source, Bool(a.ret), buckets, sources, now)
    /\ UNCHANGED <<now, sources, caller, RegistryRest>>

\* Where acquire_or_wait stands for its caller: it has returned, or raised
\* f.error, or neither yet, having gone to sleep or not; with the wait it
\* computed (num / den ticks) and the max_wait it was given.
Outcome(f) ==
    [returned |-> f.pc = "returned", slept |-> f.sleeps > 0, sleeps |-> f.sleeps,
     error |-> f.error,
     wait |-> <<f.num, f.den>>, max_wait |-> f.max_wait]

\* await rate_limiter.acquire_or_wait(source, max_wait), up to its return,
\* its raise or its sleep.
RegistryAcquireOrWait(source, max_wait) ==
    /\ caller.pc = "idle"
    /\ LET a == acquire_or_wait(buckets, source, max_wait, now)
       IN  /\ buckets' = a.buckets
           /\ caller' = IF a.frame.pc = "sleeping" THEN a.frame ELSE IdleCaller
           /\ out' = Call("acquire_or_wait", source, Outcome(a.frame), buckets, sources, now)
    /\ UNCHANGED <<now, sources, RegistryRest>>

\* asyncio.sleep(wait) is over: the rest of acquire_or_wait.
RegistryAcquireOrWaitWake ==
    /\ caller.pc = "sleeping"
    /\ (now - caller.slept_at) * caller.den >= caller.num
    /\ LET a == acquire_or_wait_finish(buckets, caller, now)
       IN  /\ buckets' = a.buckets
           /\ caller' = IF a.frame.pc = "sleeping" THEN a.frame ELSE IdleCaller
           /\ out' = Call("acquire_or_wait", caller.source, Outcome(a.frame), buckets, sources, now)
    /\ UNCHANGED <<now, sources, RegistryRest>>

\* source_registry.is_available(source)
RegistryIsAvailable(source) ==
    /\ LET a == SourceRegistry_is_available(sources, source, now)
       IN  /\ sources' = a.sources
           /\ out' = Call("is_available", source, Bool(a.ret), buckets, sources, now)
    /\ UNCHANGED <<now, buckets, caller, RegistryRest>>

\* source_registry.record_request(source, latency_ms, success)
RegistryRecordRequest(source, success) ==
    /\ source \in Registered(sources) => TotalRequests(sources, Len(sources.keys)) < MaxRequests
    /\ sources' = SourceRegistry_record_request(sources, source, RegistryLatency, success, now)
    /\ out' = Call("record_request", source, Bool(success), buckets, sources, now)
    /\ UNCHANGED <<now, buckets, caller, RegistryRest>>

\* source_registry.get_health_summary()
RegistryGetHealthSummary ==
    /\ LET h == SourceRegistry_get_health_summary(sources, now)
       IN  /\ sources' = h.sources
           /\ out' = Call("get_health_summary", "none", h.ret, buckets, sources, now)
    /\ UNCHANGED <<now, buckets, caller, RegistryRest>>

\* StooqAdapter(): a service or the /health/sources route constructs the
\* adapter, whose __init__ calls rate_limiter.register(source_name,
\* settings.stooq_rpm) with the setting the startup used.
StooqAdapter_init(bs, t) ==
    RateLimiter_register(bs, "stooq", bs["stooq"].refill_rate, t)

RegistryStooqAdapter ==
    /\ "stooq" \in DOMAIN buckets
    /\ buckets' = StooqAdapter_init(buckets, now)
    /\ out' = Call("StooqAdapter", "stooq", Bool(TRUE), buckets, sources, now)
    /\ UNCHANGED <<now, sources, caller, RegistryRest>>

RegistryTick ==
    /\ now < MaxRegistryTime
    /\ now' = now + 1
    /\ UNCHANGED <<registryVars, RegistryRest>>

RegistryNext ==
    \/ \E source \in Names : RegistryAcquire(source)
    \/ \E source \in Names, max_wait \in MaxWaits : RegistryAcquireOrWait(source, max_wait)
    \/ RegistryAcquireOrWaitWake
    \/ \E source \in Names : RegistryIsAvailable(source)
    \/ \E source \in Names, success \in BOOLEAN : RegistryRecordRequest(source, success)
    \/ RegistryGetHealthSummary
    \/ RegistryTick

SpecRegistry == RegistryInit /\ [][RegistryNext]_vars

\* The buckets over the life of the process: requests take tokens, and
\* services and the /health/sources route construct adapters.
LifecycleNext ==
    \/ \E source \in Names : RegistryAcquire(source)
    \/ RegistryStooqAdapter
    \/ RegistryTick

SpecLifecycle == RegistryInit /\ [][LifecycleNext]_vars

\* ------------------------------------- the request buffer of one source
\* source_registry holds one registered source whose deque is empty, one
\* short of full, or full (of successful requests made at StartTime), and
\* callers report outcomes and ask for availability.  Here out describes
\* the last call: the method, its success argument or its return value, the
\* registry before the call, the time, the calls so far, and streak, the
\* failed record_request calls since the last successful one.
MaxBufferCalls == 3
BufferSource == "stooq"
BufferFills == {0, RequestsMaxLen - 1, RequestsMaxLen}

BufferInit ==
    /\ now = StartTime
    /\ \E th \in 1..MaxRegistryThreshold, k \in BufferFills :
          sources = [SourceRegistry_register(NoSources, BufferSource, TRUE, th, RegistryRecovery)
                        EXCEPT !.metrics[BufferSource].requests =
                                   [i \in 1..k |-> RequestRecord(StartTime, RegistryLatency, TRUE)]]
    /\ out = [op |-> "none", ret |-> FALSE, before |-> sources, at |-> now,
              calls |-> 0, streak |-> 0]
    /\ buckets = <<>>
    /\ caller = IdleCaller
    /\ BucketIdle /\ BreakerIdle /\ RetryIdle /\ StatsIdle

BufferRest == <<buckets, caller, bucketVars, breakerVars, retryVars, statsVars>>

\* source_registry.record_request(source, latency_ms, success)
BufferRecordRequest(success) ==
    /\ out.calls < MaxBufferCalls
    /\ sources' = SourceRegistry_record_request(sources, BufferSource, RegistryLatency,
                                                success, now)
    /\ out' = [op |-> "record_request", ret |-> success, before |-> sources, at |-> now,
               calls |-> out.calls + 1,
               streak |-> IF success THEN 0 ELSE out.streak + 1]
    /\ UNCHANGED <<now, BufferRest>>

\* source_registry.is_available(source)
BufferIsAvailable ==
    /\ LET a == SourceRegistry_is_available(sources, BufferSource, now)
       IN  /\ sources' = a.sources
           /\ out' = [out EXCEPT !.op = "is_available", !.ret = a.ret,
                                 !.before = sources, !.at = now]
    /\ UNCHANGED <<now, BufferRest>>

BufferTick ==
    /\ now < MaxRegistryTime
    /\ now' = now + 1
    /\ UNCHANGED <<sources, out, BufferRest>>

BufferNext ==
    \/ \E success \in BOOLEAN : BufferRecordRequest(success)
    \/ BufferIsAvailable
    \/ BufferTick

SpecBuffer == BufferInit /\ [][BufferNext]_vars

\* ------------------------------- concurrent callers of acquire_or_wait
\* Several tasks of one event loop call acquire_or_wait on the same source.
\* A task runs without interleaving up to its asyncio.sleep and again from
\* its wake-up to its return or raise.  Here caller maps each task to its
\* frame, and out counts the calls that returned and keeps the tokens the
\* bucket held when the first task started.
MaxCallers == 3
Callers == 1..MaxCallers
ContendedSource == "stooq"

ContentionInit ==
    /\ now = StartTime
    /\ \E rpm \in 1..TicksPerMinute, taken \in 0..TicksPerMinute :
          /\ taken <= rpm
          /\ buckets = [RateLimiter_register(<<>>, ContendedSource, rpm, now)
                           EXCEPT ![ContendedSource].tokens = @ - taken * OneToken]
          /\ out = [granted |-> 0, initial |-> (rpm - taken) * OneToken]
    /\ caller = [i \in Callers |-> IdleCaller]
    /\ sources = NoSources
    /\ BucketIdle /\ BreakerIdle /\ RetryIdle /\ StatsIdle

ContentionRest == <<sources, bucketVars, breakerVars, retryVars, statsVars>>

\* Task i calls acquire_or_wait(source), with the default max_wait.
ContentionCall(i) ==
    /\ caller[i].pc = "idle"
    /\ LET a == acquire_or_wait(buckets, ContendedSource, DefaultMaxWait, now)
       IN  /\ buckets' = a.buckets
           /\ caller' = [caller EXCEPT ![i] = a.frame]
           /\ out' = [out EXCEPT !.granted = IF a.frame.pc = "returned" THEN @ + 1 ELSE @]
    /\ UNCHANGED <<now, ContentionRest>>

\* The sleep of task i is over: the rest of its acquire_or_wait.
ContentionWake(i) ==
    /\ caller[i].pc = "sleeping"
    /\ (now - caller[i].slept_at) * caller[i].den >= caller[i].num
    /\ LET a == acquire_or_wait_finish(buckets, caller[i], now)
       IN  /\ buckets' = a.buckets
           /\ caller' = [caller EXCEPT ![i] = a.frame]
           /\ out' = [out EXCEPT !.granted = IF a.frame.pc = "returned" THEN @ + 1 ELSE @]
    /\ UNCHANGED <<now, ContentionRest>>

ContentionTick ==
    /\ now < MaxRegistryTime
    /\ now' = now + 1
    /\ UNCHANGED <<buckets, caller, out, ContentionRest>>

ContentionNext ==
    \/ \E i \in Callers : ContentionCall(i)
    \/ \E i \in Callers : ContentionWake(i)
    \/ ContentionTick

SpecContention == ContentionInit /\ [][ContentionNext]_vars

\* ------------------------------------ a TokenBucket in binary floating point
\* The fields of TokenBucket and time.time() are doubles.  Here a double is
\* scaled down to a binary float with a significand of Precision bits whose
\* smallest positive value is 1 / Grid: the integer n stands for the float
\* n / Grid, and every operation rounds its exact result to the nearest
\* float, ties to even, as IEEE 754 does.
Precision == 5
GridBits == 8
MaxFloatTokens == 2
MaxFloatRate == 3
MaxFloatEighths == 3
MaxFloatCalls == 3

Grid == Pow2(GridBits)

\* The distance between neighbouring floats at the magnitude of q (q in units
\* of 1 / Grid).
RECURSIVE Spacing(_)
Spacing(q) == IF q < Pow2(Precision) THEN 1 ELSE 2 * Spacing(q \div 2)

\* num / den rounded to the nearest integer, ties to even.
RoundHalfEven(num, den) ==
    LET f == num \div den
        r == 2 * (num % den)
    IN  IF r < den THEN f
        ELSE IF r > den THEN f + 1
        ELSE IF f % 2 = 0 THEN f ELSE f + 1

\* The float nearest to the non-negative number num / den (in units of 1 / Grid).
Fl(num, den) ==
    LET sp == Spacing(num \div den)
    IN  sp * RoundHalfEven(num, den * sp)

FlAdd(a, b) == Fl(a + b, 1)
FlSub(a, b) == Fl(a - b, 1)
FlMul(a, b) == Fl(a * b, Grid)
FlDiv(a, b) == Fl(a * Grid, b)
\* float(k) of a small integer k.
FlInt(k) == Fl(k * Grid, 1)

\* TokenBucket(capacity, refill_rate) constructed at time t.
TokenBucket_fp(capacity, refill_rate, t) ==
    [capacity |-> capacity, refill_rate |-> refill_rate,
     tokens |-> capacity, last_refill |-> t]

TokenBucket_refill_fp_unclamped(b, t) ==
    LET elapsed == FlSub(t, b.last_refill)
    IN  [b EXCEPT !.tokens = FlAdd(b.tokens, FlMul(elapsed, b.refill_rate)),
                  !.last_refill = t]

\* _refill(): elapsed = now - last_refill;
\* tokens = min(capacity, tokens + elapsed * refill_rate); last_refill = now.
TokenBucket_refill_fp(b, t) ==
    LET elapsed == FlSub(t, b.last_refill)
    IN  [b EXCEPT !.tokens = Min(b.capacity, FlAdd(b.tokens, FlMul(elapsed, b.refill_rate))),
                  !.last_refill = t]

\* acquire(tokens)
TokenBucket_acquire_fp(b, t, tokens) ==
    LET r == TokenBucket_refill_fp(b, t)
    IN  IF r.tokens >= tokens
        THEN [bucket |-> [r EXCEPT !.tokens = FlSub(r.tokens, tokens)], ret |-> TRUE]
        ELSE [bucket |-> r, ret |-> FALSE]

\* wait_time(tokens): needed = tokens - self.tokens; needed / refill_rate.
TokenBucket_wait_time_fp(b, t, tokens) ==
    LET r == TokenBucket_refill_fp(b, t)
    IN  IF r.tokens >= tokens
        THEN [bucket |-> r, ret |-> 0]
        ELSE [bucket |-> r, ret |-> FlDiv(FlSub(tokens, r.tokens), r.refill_rate)]

\* The amounts asked of the bucket: one token (the default) and half a token.
FloatAmounts == {FlInt(1), Grid \div 2}

\* A bucket of 1..MaxFloatTokens tokens refilled at 1..MaxFloatRate quarters
\* of a token per second, constructed at time 0.
\* bucketLog in this specification: the last call, its argument, what it
\* returned and the time it was made at; wait and waited_at keep the last
\* wait_time(1) answer, and follows tells that it was asked in the instant
\* of a failed acquire(1), until a call other than acquire(1) comes next;
\* clamped tells that the refill of the last call was cut at the capacity;
\* calls counts the calls.
FloatInit ==
    /\ now = 0
    /\ \E c \in 1..MaxFloatTokens, r \in 1..MaxFloatRate :
          bucket = TokenBucket_fp(FlInt(c), Fl(r * Grid, 4), now)
    /\ bucketLog = [op |-> "new", tokens |-> 0, ret |-> Bool(FALSE), at |-> now,
                    wait |-> 0, waited_at |-> 0, follows |-> "none",
                    clamped |-> FALSE, calls |-> 0]
    /\ BreakerIdle /\ RetryIdle /\ StatsIdle /\ RegistryIdle

\* The refill at time t is cut at the capacity.
RefillClamps(b, t) ==
    FlAdd(b.tokens, FlMul(FlSub(t, b.last_refill), b.refill_rate)) > b.capacity

\* bucket.acquire(tokens)
FloatAcquire(tokens) ==
    /\ bucketLog.calls < MaxFloatCalls + bucket.capacity \div Grid
    /\ LET a == TokenBucket_acquire_fp(bucket, now, tokens)
       IN  /\ bucket' = a.bucket
           /\ bucketLog' = [bucketLog EXCEPT
                  !.op = "acquire", !.tokens = tokens, !.ret = Bool(a.ret), !.at = now,
                  !.follows = IF bucketLog.op = "wait_time" /\ tokens = FlInt(1)
                              THEN bucketLog.follows ELSE "none",
                  !.clamped = RefillClamps(bucket, now),
                  !.calls = @ + 1]
    /\ UNCHANGED <<now, breakerVars, retryVars, statsVars, registryVars>>

\* bucket.wait_time(tokens)
FloatWaitTime(tokens) ==
    /\ bucketLog.calls < MaxFloatCalls + bucket.capacity \div Grid
    /\ LET w == TokenBucket_wait_time_fp(bucket, now, tokens)
           after_failure == /\ bucketLog.op = "acquire" /\ bucketLog.ret = Bool(FALSE)
                            /\ bucketLog.tokens = FlInt(1) /\ tokens = FlInt(1)
                            /\ bucketLog.at = now
       IN  /\ bucket' = w.bucket
           /\ bucketLog' = [bucketLog EXCEPT
                  !.op = "wait_time", !.tokens = tokens, !.ret = [value |-> w.ret], !.at = now,
                  !.wait = IF tokens = FlInt(1) THEN w.ret ELSE 0,
                  !.waited_at = IF tokens = FlInt(1) THEN now ELSE 0,
                  !.follows = IF after_failure THEN "failed acquire" ELSE "none",
                  !.clamped = RefillClamps(bucket, now),
                  !.calls = @ + 1]
    /\ UNCHANGED <<now, breakerVars, retryVars, statsVars, registryVars>>

\* The float just below the float x, 0 for 0.
FlPred(x) == IF x = 0 THEN 0 ELSE x - Spacing(x - 1)

\* time.time() moves on by an eighth of a second.
FloatTick ==
    /\ FlAdd(now, Grid \div 8) <= Fl(MaxFloatEighths * Grid, 8)
    /\ now' = FlAdd(now, Grid \div 8)
    /\ UNCHANGED <<bucketVars, breakerVars, retryVars, statsVars, registryVars>>

\* The caller of wait_time(1) lets the returned wait pass: time.time() moves
\* on to the float nearest to now + wait, or stops at the float just below it.
FloatSleep ==
    /\ bucketLog.op = "wait_time" /\ bucketLog.waited_at = now /\ bucketLog.wait > 0
    /\ \E t \in {FlAdd(now, bucketLog.wait), FlPred(FlAdd(now, bucketLog.wait))} :
          /\ t > now
          /\ now' = t
    /\ UNCHANGED <<bucketVars, breakerVars, retryVars, statsVars, registryVars>>

FloatNext ==
    \/ \E tokens \in FloatAmounts : FloatAcquire(tokens)
    \/ \E tokens \in FloatAmounts : FloatWaitTime(tokens)
    \/ FloatTick
    \/ FloatSleep

SpecFloat == FloatInit /\ [][FloatNext]_vars

\* ------------------------------------- an adapter's requests and its service
\* BaseAdapter._request (adapters/base.py) and the fetch blocks of the
\* services that call an adapter.  Under asyncio the code between two
\* awaits that suspend runs without interleaving, so an action runs from
\* one suspension (a sleep, the transport call) to the next.
MaxFetches == 3

\* BaseAdapter.__init__: self._circuit_breaker = CircuitBreaker(), with the
\* defaults failure_threshold = 5, recovery_timeout = 30.0 seconds and
\* half_open_max_calls = 3.  The clock only takes whole ticks, so the
\* timeout is the least number of ticks that lasts 30 seconds.
DefaultFailureThreshold == 5
DefaultRecoveryTimeout == (TicksPerMinute + 1) \div 2
BaseAdapter_circuit_breaker ==
    CircuitBreaker(DefaultFailureThreshold, DefaultRecoveryTimeout, DefaultHalfOpenMaxCalls)

\* retry_with_backoff(do_request, max_retries=2), with the defaults
\* base_delay = 1.0 and max_delay = 30.0 seconds and jitter = 0.1; the
\* delay of this frame is in hundredths of a second.
BaseAdapter_retry == [retry_with_backoff(2, 1, 30, 10) EXCEPT !.pc = "call"]

\* The callers of an adapter: PriceService._fetch_from_source asks
\* source_registry.is_available first and reports the outcome with
\* record_request; MacroService.get_series calls the adapter directly.
FetchBlocks ==
    {[service |-> "PriceService._fetch_from_source", source |-> "stooq", gated |-> TRUE],
     [service |-> "MacroService.get_series", source |-> "fred", gated |-> FALSE]}

\* requests_per_minute of the adapter's bucket.
AdapterRpms == {1, TicksPerMinute}

\* events lists what the request did, in the order it first did it.
AddEvent(evs, e) == IF e \in SeqRange(evs) THEN evs ELSE Append(evs, e)

\* One fetch of a service: where it stands, the error that reached the
\* service ("none" when there is none), whether the fetch recorded a
\* failure in the adapter's breaker or in the registry's metrics, the
\* tokens its acquire_or_wait was granted and the transport attempts it
\* has started.
NoFetch(block) ==
    [pc |-> "idle", block |-> block, fetches |-> 0, events |-> <<>>, error |-> "none",
     breaker_failed |-> FALSE, metrics_failed |-> FALSE, granted |-> 0, attempts |-> 0]

BaseAdapter_request_limit_first(c, bs, source, t) ==
    LET w == acquire_or_wait(bs, source, DefaultMaxWait, t)
        a == CircuitBreaker_is_available(c, t)
    IN  IF w.frame.pc = "raised"
        THEN [cb |-> c, buckets |-> w.buckets, frame |-> w.frame, pc |-> "raised",
              error |-> w.frame.error.code, events |-> <<"acquire_or_wait">>]
        ELSE IF ~a.ret
        THEN [cb |-> a.cb, buckets |-> w.buckets, frame |-> IdleCaller, pc |-> "raised",
              error |-> "SOURCE_ERROR",
              events |-> <<"acquire_or_wait", "breaker.is_available">>]
        ELSE [cb |-> a.cb, buckets |-> w.buckets, frame |-> w.frame,
              pc |-> IF w.frame.pc = "sleeping" THEN "acquire_or_wait" ELSE "transport",
              error |-> "none",
              events |-> <<"acquire_or_wait", "breaker.is_available">>
                         \o (IF w.frame.pc = "sleeping" THEN <<>> ELSE <<"transport">>)]

\* _request(method, url) called at time t, up to its first suspension: the
\* adapter's breaker is asked, then acquire_or_wait(source_name) runs, then
\* retry_with_backoff calls do_request, which awaits the transport.
BaseAdapter_request(c, bs, source, t) ==
    LET a == CircuitBreaker_is_available(c, t)
        w == acquire_or_wait(bs, source, DefaultMaxWait, t)
    IN  IF ~a.ret
        THEN [cb |-> a.cb, buckets |-> bs, frame |-> IdleCaller, pc |-> "raised",
              error |-> "SOURCE_ERROR", events |-> <<"breaker.is_available">>]
        ELSE IF w.frame.pc = "raised"
        THEN [cb |-> a.cb, buckets |-> w.buckets, frame |-> w.frame, pc |-> "raised",
              error |-> w.frame.error.code,
              events |-> <<"breaker.is_available", "acquire_or_wait">>]
        ELSE [cb |-> a.cb, buckets |-> w.buckets, frame |-> w.frame,
              pc |-> IF w.frame.pc = "sleeping" THEN "acquire_or_wait" ELSE "transport",
              error |-> "none",
              events |-> <<"breaker.is_available", "acquire_or_wait">>
                         \o (IF w.frame.pc = "sleeping" THEN <<>> ELSE <<"transport">>)]

\* The end of a fetch at time t, the adapter having returned (error =
\* "none") or raised: a gated service calls record_request(source,
\* latency_ms, success) in its try or its except clause; the other lets
\* the error pass.  The new registry and the new record of the fetch.
Service_finish(o, reg, error, t) ==
    LET r == IF o.block.gated
             THEN SourceRegistry_record_request(reg, o.block.source, RegistryLatency,
                                                error = "none", t)
             ELSE reg
    IN  [sources |-> r,
         fetch |-> [o EXCEPT !.pc = "idle", !.error = error,
                             !.events = IF o.block.gated THEN AddEvent(@, "record_request")
                                        ELSE @,
                             !.metrics_failed = error # "none" /\ r # reg]]

AdapterInit ==
    /\ now = StartTime
    /\ cb = BaseAdapter_circuit_breaker
    /\ cbLog = NoBreakerLog
    /\ retry = NoRetry
    /\ caller = IdleCaller
    /\ \E block \in FetchBlocks, rpm \in AdapterRpms, registered \in BOOLEAN :
          /\ registered => block.gated
          /\ buckets = RateLimiter_register(<<>>, block.source, rpm, now)
          /\ sources = IF registered
                       THEN SourceRegistry_register(NoSources, block.source, TRUE,
                                                    DefaultFailureThreshold, TicksPerMinute)
                       ELSE NoSources
          /\ out = NoFetch(block)
    /\ BucketIdle /\ StatsIdle

AdapterRest == <<bucketVars, cbLog, statsVars>>

\* A service starts a fetch: the gate of the registry when it has one, then
\* the adapter's _request up to its first suspension or its raise.
AdapterFetch ==
    /\ out.pc = "idle"
    /\ out.fetches < MaxFetches
    /\ \E o \in {[NoFetch(out.block) EXCEPT !.fetches = out.fetches + 1]},
          g \in {IF out.block.gated
                 THEN SourceRegistry_is_available(sources, out.block.source, now)
                 ELSE [sources |-> sources, ret |-> TRUE]},
          s \in {BaseAdapter_request(cb, buckets, out.block.source, now)} :
       LET gate == IF o.block.gated THEN <<"registry.is_available">> ELSE <<>>
           f == Service_finish([o EXCEPT !.events = gate \o s.events], g.sources, s.error, now)
       IN  IF ~g.ret
           THEN /\ sources' = g.sources
                /\ out' = [o EXCEPT !.events = gate]
                /\ UNCHANGED <<cb, buckets, caller, retry>>
           ELSE /\ cb' = s.cb
                /\ buckets' = s.buckets
                /\ caller' = IF s.pc = "acquire_or_wait" THEN s.frame ELSE IdleCaller
                /\ retry' = IF s.pc = "transport" THEN BaseAdapter_retry ELSE NoRetry
                /\ sources' = IF s.pc = "raised" THEN f.sources ELSE g.sources
                /\ out' = IF s.pc = "raised" THEN f.fetch
                          ELSE [o EXCEPT !.pc = s.pc, !.events = gate \o s.events,
                                         !.granted = IF s.pc = "transport" THEN 1 ELSE 0,
                                         !.attempts = IF s.pc = "transport" THEN 1 ELSE 0]
    /\ UNCHANGED <<now, AdapterRest>>

\* asyncio.sleep(wait) of acquire_or_wait is over: the acquire, then the
\* first do_request or the RateLimitError.
AdapterAcquireWake ==
    /\ out.pc = "acquire_or_wait"
    /\ (now - caller.slept_at) * caller.den >= caller.num
    /\ LET a == acquire_or_wait_finish(buckets, caller, now)
           f == Service_finish(out, sources, a.frame.error.code, now)
       IN  /\ buckets' = a.buckets
           /\ caller' = IdleCaller
           /\ IF a.frame.pc = "returned"
              THEN /\ retry' = BaseAdapter_retry
                   /\ out' = [out EXCEPT !.pc = "transport",
                                         !.events = AddEvent(@, "transport"),
                                         !.granted = @ + 1, !.attempts = @ + 1]
                   /\ UNCHANGED sources
              ELSE /\ retry' = NoRetry
                   /\ sources' = f.sources
                   /\ out' = f.fetch
    /\ UNCHANGED <<now, cb, AdapterRest>>

\* client.request returns a good response: record_success, and the result
\* goes back through retry_with_backoff to the service.
AdapterTransportReturns ==
    /\ out.pc = "transport"
    /\ cb' = CircuitBreaker_record_success(cb)
    /\ retry' = NoRetry
    /\ LET f == Service_finish(out, sources, "none", now)
       IN  sources' = f.sources /\ out' = f.fetch
    /\ UNCHANGED <<now, buckets, caller, AdapterRest>>

\* client.request times out or raise_for_status raises: record_failure, the
\* typed error, and retry_with_backoff sleeps or raises the last error.
AdapterTransportFails ==
    /\ out.pc = "transport"
    /\ \E form \in ErrorForms, u \in {0 - retry.jitter, retry.jitter} :
          LET e == Error(retry.calls + 1, form)
              r == retry_except([retry EXCEPT !.calls = @ + 1, !.thrown = Append(@, e)],
                                e, u, now)
              o == [out EXCEPT !.breaker_failed = TRUE,
                               !.events = AddEvent(@, "record_failure")]
              f == Service_finish(o, sources, r.raised.kind, now)
          IN  /\ cb' = CircuitBreaker_record_failure(cb, now)
              /\ IF r.pc = "raised"
                 THEN retry' = NoRetry /\ sources' = f.sources /\ out' = f.fetch
                 ELSE /\ retry' = r
                      /\ out' = [o EXCEPT !.pc = "backoff"]
                      /\ UNCHANGED sources
    /\ UNCHANGED <<now, buckets, caller, AdapterRest>>

\* asyncio.sleep(delay) of retry_with_backoff is over: the next do_request.
AdapterRetryWake ==
    /\ out.pc = "backoff"
    /\ (now - retry.slept_at) * 60 * 100 >= retry.delay * TicksPerMinute
    /\ retry' = [retry EXCEPT !.pc = "call", !.attempt = @ + 1]
    /\ out' = [out EXCEPT !.pc = "transport", !.attempts = @ + 1]
    /\ UNCHANGED <<now, cb, buckets, sources, caller, AdapterRest>>

\* Another request of the same source takes a token of the shared bucket.
AdapterOtherAcquire ==
    /\ LET a == RateLimiter_acquire(buckets, out.block.source, now)
       IN  a.ret /\ buckets' = a.buckets
    /\ UNCHANGED <<now, cb, retry, sources, caller, out, AdapterRest>>

AdapterTick ==
    /\ Tick
    /\ UNCHANGED <<cb, retry, registryVars, AdapterRest>>

AdapterNext ==
    \/ AdapterFetch
    \/ AdapterAcquireWake
    \/ AdapterTransportReturns
    \/ AdapterTransportFails
    \/ AdapterRetryWake
    \/ AdapterOtherAcquire
    \/ AdapterTick

SpecAdapter == AdapterInit /\ [][AdapterNext]_vars

\* ----------------------------------------------------------------- claims
Capacity(b) == b.capacity \div OneToken

\* C1: while the clock has advanced by less than the time that refills one
\* token since the bucket was created full with capacity C, the acquire()
\* calls granted so far are the first C ones: every call up to the C-th
\* returned true and every later one returned false.
C1_Saturation ==
    (now - bucketLog.created) * bucket.refill_rate < OneToken
        => /\ bucketLog.granted = Min(bucketLog.calls, Capacity(bucket))
           /\ (bucketLog.op = "acquire" /\ bucketLog.calls <= Capacity(bucket)
                    => bucketLog.ret = TRUE)
           /\ (bucketLog.op = "acquire" /\ bucketLog.calls > Capacity(bucket)
                    => bucketLog.ret = FALSE)

\* The (C+1)-th acquire() has just failed, after a clock advance too short
\* to refill a token.
C1_Witness ==
    /\ bucketLog.op = "acquire" /\ bucketLog.ret = FALSE
    /\ Capacity(bucket) = MaxCapacity
    /\ bucketLog.calls = Capacity(bucket) + 1
    /\ bucketLog.granted = Capacity(bucket)
    /\ now > bucketLog.created
    /\ (now - bucketLog.created) * bucket.refill_rate < OneToken

\* C2: on a breaker that has only seen record_failure() calls since it was
\* constructed, the state is CLOSED after fewer than failure_threshold of
\* them and OPEN from the failure_threshold-th on; an is_available() call
\* made right after the failure_threshold-th, before recovery_timeout has
\* elapsed, returns false and leaves the breaker OPEN.
C2_StateAfterFailures ==
    cbLog.others = 0 =>
        /\ (cbLog.streak < cb.failure_threshold => cb.state = CLOSED)
        /\ (cbLog.streak >= cb.failure_threshold => cb.state = OPEN)

C2_Rejects ==
    (/\ cbLog.op = "is_available" /\ cbLog.others = 1
     /\ cbLog.streak = cb.failure_threshold
     /\ cbLog.at - cbLog.before.last_failure_time < cb.recovery_timeout)
        => cbLog.ret = FALSE /\ cb.state = OPEN

C2_OpensAtThreshold == C2_StateAfterFailures /\ C2_Rejects

C2_Witness ==
    /\ cbLog.op = "is_available" /\ cbLog.ret = FALSE /\ cbLog.others = 1
    /\ cb.failure_threshold = MaxThreshold
    /\ cbLog.streak = cb.failure_threshold
    /\ cbLog.before.state = OPEN

\* C3: record_success() on a CLOSED breaker leaves it CLOSED with
\* failure_count = 0 whatever the count was, and a step from CLOSED to OPEN
\* happens only when at least failure_threshold record_failure() calls were
\* made since the last record_success().
C3_SuccessResets ==
    /\ (cbLog.op = "record_success" /\ cbLog.before.state = CLOSED
            => cb.state = CLOSED /\ cb.failure_count = 0)
    /\ (cbLog.before.state = CLOSED /\ cb.state = OPEN
            => cbLog.op = "record_failure" /\ cbLog.streak >= cb.failure_threshold)

\* A success has just reset a count of two or more.
C3_Witness ==
    /\ cbLog.op = "record_success"
    /\ cbLog.before.state = CLOSED /\ cbLog.before.failure_count >= 2
    /\ cb.state = CLOSED /\ cb.failure_count = 0

\* C4: is_available() on an OPEN breaker returns false and changes nothing
\* while now - last_failure_time < recovery_timeout; otherwise it moves the
\* breaker to HALF_OPEN with half_open_calls = 0 and returns true.  No other
\* step of the system takes the breaker from OPEN to HALF_OPEN.
C4_Lazy ==
    cbLog.op = "is_available" /\ cbLog.before.state = OPEN =>
        IF cbLog.at - cbLog.before.last_failure_time < cbLog.before.recovery_timeout
        THEN cbLog.ret = FALSE /\ cb = cbLog.before
        ELSE cbLog.ret = TRUE /\ cb.state = HALF_OPEN /\ cb.half_open_calls = 0

C4_OnlyIsAvailable ==
    [][cb.state # HALF_OPEN /\ cb'.state = HALF_OPEN
          => /\ BreakerIsAvailable
             /\ cb.state = OPEN
             /\ now - cb.last_failure_time >= cb.recovery_timeout]_vars

C4_LazyRecovery == []C4_Lazy /\ C4_OnlyIsAvailable

\* An is_available() call has just half-opened a breaker whose
\* half_open_calls was left non-zero by an earlier episode.
C4_Witness ==
    /\ cbLog.op = "is_available" /\ cbLog.ret = TRUE
    /\ cbLog.before.state = OPEN /\ cbLog.before.half_open_calls > 0
    /\ cb.recovery_timeout > 0
    /\ cb.state = HALF_OPEN /\ cb.half_open_calls = 0

\* C5: a HALF_OPEN breaker has seen fewer than half_open_max_calls
\* record_success() calls since it entered HALF_OPEN, and the
\* half_open_max_calls-th of them moves it to CLOSED with failure_count = 0.
C5_HalfOpenCloses ==
    /\ (cb.state = HALF_OPEN => cbLog.episode < cb.half_open_max_calls)
    /\ (cbLog.op = "record_success" /\ cbLog.before.state = HALF_OPEN =>
            IF cbLog.episode < cb.half_open_max_calls
            THEN cb.state = HALF_OPEN
            ELSE /\ cbLog.episode = cb.half_open_max_calls
                 /\ cb.state = CLOSED /\ cb.failure_count = 0)

C5_Witness ==
    /\ cbLog.op = "record_success" /\ cbLog.before.state = HALF_OPEN
    /\ cb.half_open_max_calls = MaxHalfOpenCalls
    /\ cbLog.episode = cb.half_open_max_calls
    /\ cbLog.before.failure_count > 0
    /\ cb.state = CLOSED /\ cb.failure_count = 0

\* C6: record_failure() on a HALF_OPEN breaker leaves it OPEN, whatever
\* half_open_calls and failure_count are.
C6_Relapse ==
    cbLog.op = "record_failure" /\ cbLog.before.state = HALF_OPEN => cb.state = OPEN

\* A failure has just re-opened a breaker that had already seen a success
\* in this HALF_OPEN episode.
C6_Witness ==
    /\ cbLog.op = "record_failure" /\ cbLog.before.state = HALF_OPEN
    /\ cbLog.before.half_open_calls >= 1 /\ cbLog.episode >= 1
    /\ cb.state = OPEN

\* C7: when retry_with_backoff raises, fn was called exactly
\* max_retries + 1 times, every call raised, and the exception raised is the
\* instance raised by the last call.
C7_Exhaustion ==
    retry.pc = "raised" =>
        /\ retry.calls = retry.max_retries + 1
        /\ Len(retry.thrown) = retry.calls
        /\ retry.raised = retry.thrown[Len(retry.thrown)]

\* Three failed attempts of different kinds have ended in a raise.
C7_Witness ==
    /\ retry.pc = "raised"
    /\ retry.max_retries = MaxRetries
    /\ retry.calls = MaxRetries + 1
    /\ retry.thrown[1].kind # retry.thrown[Len(retry.thrown)].kind
    /\ retry.sleeps = MaxRetries

\* The successful latencies of the records inside the window at time now.
WindowLatencies ==
    LET q == SelectSeq(metrics.requests,
                       LAMBDA r : r.success /\ r.timestamp >= now - MetricsWindow)
    IN  [i \in 1..Len(q) |-> q[i].latency_ms]

\* v stands at position idx (from 0) of the ascending order of the values of q.
AtAscendingIndex(q, idx, v) ==
    /\ \E i \in 1..Len(q) : q[i] = v
    /\ Cardinality({i \in 1..Len(q) : q[i] < v}) <= idx
    /\ Cardinality({i \in 1..Len(q) : q[i] <= v}) > idx

FloorIndex(n) == Min((95 * n) \div 100, n - 1)

\* The window holds exactly n successful records with latencies 1..n ms.
IsRamp(n) ==
    /\ Len(metrics.requests) = n
    /\ Len(WindowLatencies) = n
    /\ {WindowLatencies[i] : i \in 1..n} = {k * 1000 : k \in 1..n}

\* The value reported for the latencies q: round(v, 2) of the value v at
\* index floor(0.95 n), clamped to the last index, of their ascending order,
\* and 0 when there is none.
ReportsFloorIndexValue(q, reported) ==
    IF q = <<>> THEN reported = 0
    ELSE \E i \in 1..Len(q) :
            /\ AtAscendingIndex(q, FloorIndex(Len(q)), q[i])
            /\ reported = Round2(q[i])

\* C8, as stated: p95_latency_ms is the value (reported to two decimals) at
\* index floor(0.95 n), clamped to the last index, of the ascending
\* successful latencies of the window, 0 when there is none, and it is 95 ms
\* for 100 successful records with latencies 1..100 ms.
C8_AsStated ==
    stats # NoStats =>
        /\ ReportsFloorIndexValue(WindowLatencies, stats.p95_latency_ms)
        /\ (IsRamp(100) => stats.p95_latency_ms = 95 * 1000)

\* C8, amended: p95_latency_ms is the value (reported to two decimals) at
\* index floor(0.95 n) counted from 0, clamped to the last index, of the
\* ascending successful latencies of the window, 0 when there is none; for
\* 100 successful records with latencies 1..100 ms it is 96 ms, the 96th
\* smallest value.
C8_P95 ==
    stats # NoStats =>
        /\ ReportsFloorIndexValue(WindowLatencies, stats.p95_latency_ms)
        /\ (IsRamp(100) => stats.p95_latency_ms = 96 * 1000)

\* get_stats() has answered for 100 successful records of 1..100 ms.
C8_Witness ==
    /\ stats # NoStats
    /\ IsRamp(100)
    /\ stats.requests_last_5m = 100
    /\ stats.p95_latency_ms = 96 * 1000

\* The registered sources that are disabled or whose circuit is not CLOSED.
DegradedSources(reg) ==
    {s \in Registered(reg) :
        ~reg.metrics[s].enabled \/ reg.metrics[s].circuit_breaker.state # CLOSED}

HealthSummaryOf(summary, reg) ==
    /\ summary.status = (IF DegradedSources(reg) = {} THEN "healthy" ELSE "degraded")
    /\ SeqRange(summary.degraded_sources) = DegradedSources(reg)
    /\ Len(summary.degraded_sources) = Cardinality(DegradedSources(reg))

\* C9: the dict returned by get_health_summary() has status "degraded" when
\* some registered source is disabled or has a circuit state other than
\* CLOSED and "healthy" otherwise, and degraded_sources lists exactly those
\* sources, once each; this holds of the registry as the call found it and
\* as the call left it.
C9_HealthSummary ==
    out.op = "get_health_summary" =>
        /\ HealthSummaryOf(out.ret, out.before.sources)
        /\ HealthSummaryOf(out.ret, sources)

\* A summary has just reported a disabled source with a closed circuit and
\* an enabled source with an open circuit.
C9_Witness ==
    /\ out.op = "get_health_summary"
    /\ out.ret.status = "degraded"
    /\ Len(out.ret.degraded_sources) = 2
    /\ \E s, t \in Registered(sources) :
          /\ ~sources.metrics[s].enabled
          /\ sources.metrics[s].circuit_breaker.state = CLOSED
          /\ sources.metrics[t].enabled
          /\ sources.metrics[t].circuit_breaker.state = OPEN

\* Every registered source is enabled and CLOSED, and the summary says
\* "healthy" with no degraded source.
C9_WitnessHealthy ==
    /\ out.op = "get_health_summary"
    /\ Registered(sources) = SourceNames
    /\ out.ret.status = "healthy"
    /\ out.ret.degraded_sources = <<>>

\* C10: for a source that is not registered, rate_limiter.acquire returns
\* true, acquire_or_wait returns without sleeping or raising,
\* source_registry.is_available returns true, and each of these calls and
\* source_registry.record_request leave both registries as they were.
C10_FailOpen ==
    /\ (out.op = "acquire" /\ out.source \notin DOMAIN out.before.buckets
            => out.ret = Bool(TRUE) /\ buckets = out.before.buckets)
    /\ (out.op = "acquire_or_wait" /\ out.source \notin DOMAIN out.before.buckets
            => /\ out.ret.returned /\ ~out.ret.slept /\ out.ret.error = NoRateLimitError
               /\ buckets = out.before.buckets)
    /\ (caller.pc = "sleeping" => caller.source \in DOMAIN buckets)
    /\ (out.op = "is_available" /\ out.source \notin Registered(out.before.sources)
            => out.ret = Bool(TRUE) /\ sources = out.before.sources)
    /\ (out.op = "record_request" /\ out.source \notin Registered(out.before.sources)
            => sources = out.before.sources)

\* record_request has just been called for the unregistered name while two
\* sources are registered and hold records.
C10_Witness ==
    /\ out.op = "record_request" /\ out.source = UnregisteredSource
    /\ Registered(sources) = SourceNames
    /\ \A s \in SourceNames : sources.metrics[s].requests # <<>>

\* The last call was the acquire() that came next after a wait_time() asked
\* in the instant of a failed acquire().
RetriedAfterWait ==
    /\ bucketLog.op = "acquire"
    /\ bucketLog.follows = "failed acquire"

\* wait_time() asked in the instant of a failed acquire() returns a positive
\* wait, the float nearest to (1 - tokens) / refill_rate.
C11_PositiveWait ==
    bucketLog.op = "wait_time" /\ bucketLog.follows = "failed acquire" =>
        /\ bucketLog.wait > 0
        /\ bucketLog.wait = Fl((FlInt(1) - bucket.tokens) * Grid, bucket.refill_rate)

\* Once the clock has advanced by the wait or more, the acquire() succeeds.
C11_SucceedsAfterWait ==
    RetriedAfterWait /\ bucketLog.at - bucketLog.waited_at >= bucketLog.wait
        => bucketLog.ret = Bool(TRUE)

\* After a shorter advance it fails.
C11_FailsBefore ==
    RetriedAfterWait /\ bucketLog.at - bucketLog.waited_at < bucketLog.wait
        => bucketLog.ret = Bool(FALSE)

\* C11, as stated: when acquire(1) has just failed, wait_time(1) returns the
\* positive wait w = (1 - tokens) / refill_rate; once the clock has advanced
\* by w with no other call on the bucket, the next acquire(1) succeeds, and
\* after any shorter advance it still fails.
C11_RefillMonotonicity ==
    C11_PositiveWait /\ C11_SucceedsAfterWait /\ C11_FailsBefore

\* C12: after any sequence of acquire(n) and wait_time(n) calls interleaved
\* with clock advances, the bucket's tokens satisfy 0 <= tokens <= capacity.
C12_TokenLevel ==
    /\ 0 <= bucket.tokens
    /\ bucket.tokens <= bucket.capacity

\* A later acquire() has just found more refill than the bucket holds: the
\* refill was cut at the capacity and the tokens asked were taken from it.
C12_Witness ==
    /\ bucketLog.op = "acquire" /\ bucketLog.ret = Bool(TRUE)
    /\ bucketLog.clamped
    /\ bucketLog.calls >= 2
    /\ bucket.tokens = FlSub(bucket.capacity, bucketLog.tokens)

\* C13: in every state reached through is_available / record_success /
\* record_failure from a freshly constructed breaker, state = OPEN implies
\* that a failure was recorded and last_failure_time is the time of the last
\* one, and half_open_calls <= half_open_max_calls.
C13_DataInvariants ==
    /\ (cb.state = OPEN
            => /\ cbLog.failed_at >= StartTime
               /\ cb.last_failure_time = cbLog.failed_at)
    /\ cb.half_open_calls <= cb.half_open_max_calls

\* The breaker is OPEN again after an episode that closed it with
\* half_open_calls = half_open_max_calls.
C13_Witness ==
    /\ cb.state = OPEN
    /\ cb.half_open_max_calls = MaxHalfOpenCalls
    /\ cb.half_open_calls = cb.half_open_max_calls
    /\ cb.last_failure_time > StartTime

\* The wait acquire_or_wait computed exceeds the max_wait it was given
\* (o is an Outcome; the wait is num / den ticks, max_wait is in seconds).
ExceedsMaxWait(o) == o.wait[1] * 60 > o.max_wait * o.wait[2] * TicksPerMinute

\* The computed wait in seconds, rounded up.
WaitSecondsRoundedUp(o) ==
    (o.wait[1] * 60 + o.wait[2] * TicksPerMinute - 1) \div (o.wait[2] * TicksPerMinute)

\* C14, as stated: when the computed wait exceeds max_wait, acquire_or_wait
\* raises a RateLimitError whose retry_after is the computed wait rounded up
\* to whole seconds, so that retry_after >= wait, and the hint is present in
\* the error's to_dict().
C14_RetryAfterRoundedUp ==
    out.op = "acquire_or_wait" /\ ExceedsMaxWait(out.ret) =>
        /\ out.ret.error.code = "RATE_LIMITED"
        /\ out.ret.error.retry_after = WaitSecondsRoundedUp(out.ret)
        /\ out.ret.error.retry_after * out.ret.wait[2] * TicksPerMinute >= out.ret.wait[1] * 60
        /\ OpenTermError_to_dict(out.ret.error).retry_after_seconds
               = <<out.ret.error.retry_after>>

\* C15: a call of acquire_or_wait(source, max_wait) whose computed wait
\* exceeds max_wait raises at once, without sleeping and without taking a
\* token (the bucket is left as the refill of wait_time() made it);
\* otherwise it sleeps at most once, for a wait of at most max_wait seconds,
\* and once the sleep is over it returns or raises: it never sleeps again.
C15_BoundedWait ==
    /\ (out.op = "acquire_or_wait" /\ ExceedsMaxWait(out.ret) =>
            /\ out.ret.error.code = "RATE_LIMITED"
            /\ out.ret.sleeps = 0 /\ ~out.ret.returned
            /\ caller.pc = "idle"
            /\ buckets[out.source] =
                   TokenBucket_refill(out.before.buckets[out.source],
                                      buckets[out.source].last_refill))
    /\ (caller.pc = "sleeping" =>
            /\ caller.sleeps = 1
            /\ caller.num > 0
            /\ caller.num * 60 <= caller.max_wait * caller.den * TicksPerMinute)
    /\ (out.op = "acquire_or_wait" /\ out.ret.slept /\ caller.pc = "idle" =>
            /\ out.ret.sleeps = 1
            /\ out.ret.returned \/ out.ret.error.code = "RATE_LIMITED")

\* A call has slept, found on waking that another caller took the token,
\* and raised.
C15_Witness ==
    /\ out.op = "acquire_or_wait" /\ caller.pc = "idle"
    /\ out.ret.slept /\ ~out.ret.returned
    /\ out.ret.error = RateLimitError(out.source, DefaultRetryAfter)

\* C16: the delay slept before retry k (1 <= k <= max_retries) is
\* min(base_delay * 2^(k-1), max_delay) times a factor in
\* [1 - jitter, 1 + jitter]: it never exceeds max_delay * (1 + jitter), is
\* never below min(base_delay * 2^(k-1), max_delay) * (1 - jitter), and is
\* never below base_delay * 2^(k-1) * (1 - jitter) when the clamp does not
\* apply.  (Delays are in hundredths of a tick, jitter in hundredths.)
C16_BackoffBounds ==
    retry.pc = "sleep" =>
        LET k == retry.attempt + 1
            unclamped == retry.base_delay * Pow2(k - 1)
            nominal == Min(unclamped, retry.max_delay)
        IN  /\ 1 <= k /\ k <= retry.max_retries
            /\ nominal * (100 - retry.jitter) <= retry.delay
            /\ retry.delay <= nominal * (100 + retry.jitter)
            /\ retry.delay <= retry.max_delay * (100 + retry.jitter)
            /\ (unclamped <= retry.max_delay
                    => retry.delay >= unclamped * (100 - retry.jitter))

\* The sleep before the second retry, cut at max_delay and drawn at the
\* lowest jitter.
C16_Witness ==
    /\ retry.pc = "sleep" /\ retry.attempt = 1
    /\ retry.jitter = MaxJitter
    /\ retry.base_delay * 2 > retry.max_delay
    /\ retry.delay = retry.max_delay * (100 - retry.jitter)

\* C17: for a registered source, source_registry.is_available(source)
\* returns enabled AND circuit_breaker.is_available(), the breaker being the
\* one the call found and asked at the time of the call; a source registered
\* as disabled is never reported available.
C17_AvailabilityGate ==
    out.op = "is_available" /\ out.source \in Registered(out.before.sources) =>
        LET m == out.before.sources.metrics[out.source]
        IN  /\ out.ret = Bool(m.enabled
                              /\ CircuitBreaker_is_available(m.circuit_breaker, out.at).ret)
            /\ (~m.enabled => out.ret = Bool(FALSE))

\* A disabled source whose requests succeeded and whose circuit is CLOSED
\* has just been reported unavailable.
C17_Witness ==
    /\ out.op = "is_available" /\ out.source \in Registered(sources)
    /\ ~sources.metrics[out.source].enabled
    /\ sources.metrics[out.source].circuit_breaker.state = CLOSED
    /\ sources.metrics[out.source].requests # <<>>
    /\ \A i \in 1..Len(sources.metrics[out.source].requests) :
          sources.metrics[out.source].requests[i].success
    /\ out.ret = Bool(FALSE)

\* C18, as stated: no call of TokenBucket.acquire / wait_time raises, for
\* any configuration register accepts, requests_per_minute = 0 included
\* (the calls of CircuitBreaker and SourceMetrics have no raising path).
C18_NeverThrow ==
    bucketLog.raised = "none"

\* The place of an event in the list of a fetch, 0 when it did not happen.
Position(evs, e) ==
    IF e \in SeqRange(evs) THEN CHOOSE i \in 1..Len(evs) : evs[i] = e ELSE 0
Precedes(evs, a, b) ==
    Position(evs, a) > 0 /\ Position(evs, a) < Position(evs, b)
AvailabilityChecks == {"registry.is_available", "breaker.is_available"}

\* C19, as stated: in every adapter request that reaches the transport,
\* acquire_or_wait comes first, every availability / circuit-breaker check
\* comes after it, and both come before the first transport attempt.
C19_AsStated ==
    "transport" \in SeqRange(out.events) =>
        /\ \E c \in AvailabilityChecks : c \in SeqRange(out.events)
        /\ \A c \in AvailabilityChecks :
              c \in SeqRange(out.events) =>
                  /\ Precedes(out.events, "acquire_or_wait", c)
                  /\ Precedes(out.events, c, "transport")

\* C19, amended: in every adapter request that reaches the transport, the
\* availability checks come first (the registry's gate, when the service
\* has one, then the adapter's own breaker), acquire_or_wait comes after
\* them, and all of them come before the first transport attempt.
C19_PreCallOrdering ==
    "transport" \in SeqRange(out.events) =>
        /\ Precedes(out.events, "breaker.is_available", "acquire_or_wait")
        /\ Precedes(out.events, "acquire_or_wait", "transport")
        /\ out.block.gated =>
              Precedes(out.events, "registry.is_available", "breaker.is_available")

\* A second fetch of a gated service that passed both checks and
\* acquire_or_wait and is at the transport.
C19_Witness ==
    /\ out.pc = "transport"
    /\ out.block.gated
    /\ out.fetches >= 2
    /\ out.events = <<"registry.is_available", "breaker.is_available",
                      "acquire_or_wait", "transport">>

\* C20, as stated: when a fetch ends with an error of the adapter request
\* (upstream failure, upstream timeout, rate-limit rejection), the fetch has
\* recorded a failure in the adapter's breaker or in the registry's metrics.
C20_FailureObservability ==
    (out.pc = "idle" /\ out.error \in ErrorKinds \cup {"RATE_LIMITED"}) =>
        out.breaker_failed \/ out.metrics_failed

\* C21, as stated: a call of the running program (the construction of an
\* adapter included) leaves every bucket in place with at most the tokens
\* it had plus the refill up to the time of the call.
C21_BucketLifecycle ==
    \A s \in DOMAIN out.before.buckets :
        /\ s \in DOMAIN buckets
        /\ buckets[s].tokens <= TokenBucket_refill(out.before.buckets[s], out.at).tokens

\* C22: with several callers of acquire_or_wait on one source, the calls
\* that returned are no more than the tokens the bucket held at the start
\* plus those refilled since; a caller that slept and then lost the acquire
\* has a retryable RateLimitError with a retry-after hint, and no caller
\* sleeps a second time.
C22_NoDoubleGrant ==
    /\ out.granted * OneToken
           <= out.initial + (now - StartTime) * buckets[ContendedSource].refill_rate
    /\ \A i \in Callers :
          /\ caller[i].sleeps <= 1
          /\ (caller[i].pc = "raised" /\ caller[i].sleeps = 1) =>
                 /\ caller[i].error.code = "RATE_LIMITED"
                 /\ caller[i].error.retryable
                 /\ caller[i].error.retry_after > 0

\* Two callers slept for the same token: one returned, the other raised.
C22_Witness ==
    \E i, j \in Callers :
        /\ caller[i].pc = "returned" /\ caller[i].sleeps = 1
        /\ caller[j].pc = "raised" /\ caller[j].sleeps = 1
        /\ caller[i].slept_at = caller[j].slept_at

\* C23, as stated: while the breaker is HALF_OPEN, the is_available() calls
\* that returned True since it entered HALF_OPEN, the entering call
\* included, are at most half_open_max_calls, whether or not an outcome
\* was recorded between them.
C23_HalfOpenGate ==
    cb.state = HALF_OPEN => cbLog.admitted <= cb.half_open_max_calls

\* C24: record_failure() sets last_failure_time to the time of the call and
\* adds one to failure_count, whatever the state; so an OPEN breaker answers
\* is_available() with false until recovery_timeout has passed since the
\* last recorded failure, one recorded while it was already OPEN included.
C24_FailureRestartsRecovery ==
    /\ cbLog.op = "record_failure" =>
          /\ cb.last_failure_time = cbLog.at
          /\ cb.failure_count = cbLog.before.failure_count + 1
    /\ cb.state = OPEN =>
          CircuitBreaker_is_available(cb, now).ret
              = (now - cbLog.failed_at >= cb.recovery_timeout)

\* A failure was recorded on an OPEN breaker, and now the interval counted
\* from the earlier failure has passed while the restarted one has not.
C24_Witness ==
    /\ cbLog.op = "record_failure" /\ cbLog.before.state = OPEN
    /\ cb.state = OPEN
    /\ now - cbLog.before.last_failure_time >= cb.recovery_timeout
    /\ now - cb.last_failure_time < cb.recovery_timeout
    /\ ~CircuitBreaker_is_available(cb, now).ret

\* C25: retry_with_backoff returns the result of the first call of fn that
\* succeeds and calls fn no more; it raises only after max_retries + 1
\* calls, whatever the exceptions were; when it has ended, the sleeps are
\* one fewer than the calls, and before that every failed call is followed
\* by one sleep.
C25_AttemptCount ==
    /\ retry.calls <= retry.max_retries + 1
    /\ retry.pc = "returned" =>
          /\ retry.result = retry.calls
          /\ Len(retry.thrown) = retry.calls - 1
          /\ retry.sleeps = retry.calls - 1
    /\ retry.pc = "raised" =>
          /\ retry.calls = retry.max_retries + 1
          /\ retry.sleeps = retry.calls - 1
    /\ retry.pc \in {"call", "sleep"} =>
          /\ Len(retry.thrown) = retry.calls
          /\ retry.sleeps = retry.calls

\* The last allowed call succeeded after a failure that was not retryable.
C25_Witness ==
    /\ retry.pc = "returned"
    /\ retry.max_retries = MaxRetries
    /\ retry.calls = MaxRetries + 1
    /\ retry.sleeps = MaxRetries
    /\ \E i \in 1..Len(retry.thrown) : ~retry.thrown[i].retryable

\* C26: record_request on a registered source appends one RequestRecord
\* made of the time and the arguments of the call, dropping the oldest
\* record, and only it, when the deque already held 1000; it passes one
\* outcome to the breaker of the source (a failure counts and is timed, a
\* success counts no failure); the deque never holds more than 1000
\* records; and once failure_threshold calls in a row have reported a
\* failure, is_available(source) is false until the recovery timeout.
C26_RecordRequest ==
    LET a == sources.metrics[BufferSource]
        b == out.before.metrics[BufferSource]
        n == Len(b.requests)
    IN  /\ Len(a.requests) <= RequestsMaxLen
        /\ out.op = "record_request" =>
              /\ Len(a.requests) = Min(n + 1, RequestsMaxLen)
              /\ a.requests[Len(a.requests)] = RequestRecord(out.at, RegistryLatency, out.ret)
              /\ \A i \in 1..(Len(a.requests) - 1) :
                    a.requests[i] = b.requests[i + (n + 1 - Len(a.requests))]
              /\ IF out.ret
                 THEN /\ a.circuit_breaker.failure_count <= b.circuit_breaker.failure_count
                      /\ a.circuit_breaker.last_failure_time
                             = b.circuit_breaker.last_failure_time
                      /\ b.circuit_breaker.state = CLOSED
                             => a.circuit_breaker.failure_count = 0
                      /\ b.circuit_breaker.state = HALF_OPEN
                             => a.circuit_breaker.half_open_calls
                                    = b.circuit_breaker.half_open_calls + 1
                 ELSE /\ a.circuit_breaker.failure_count
                             = b.circuit_breaker.failure_count + 1
                      /\ a.circuit_breaker.last_failure_time = out.at
        /\ (/\ out.op = "record_request"
            /\ out.streak >= a.circuit_breaker.failure_threshold
            /\ now - out.at < a.circuit_breaker.recovery_timeout)
               => ~SourceRegistry_is_available(sources, BufferSource, now).ret

\* A full deque has taken failure_threshold failed requests in a row, the
\* last of them just now, and the source is not available.
C26_Witness ==
    /\ out.op = "record_request" /\ ~out.ret
    /\ Len(out.before.metrics[BufferSource].requests) = RequestsMaxLen
    /\ sources.metrics[BufferSource].circuit_breaker.failure_threshold = MaxRegistryThreshold
    /\ out.streak = MaxRegistryThreshold
    /\ ~SourceRegistry_is_available(sources, BufferSource, now).ret

\* C27, as stated: the transport attempts of an adapter request, retries
\* included, are no more than the tokens the request was granted.
C27_TokenPerAttempt ==
    out.attempts <= out.granted

\* C28, as stated: no transport attempt of an adapter is in flight while
\* the adapter's own breaker is OPEN (requests of one adapter run one at a
\* time here, so the breaker is as the attempt found it).
C28_NoCallThroughOpen ==
    out.pc = "transport" => cb.state # OPEN

\* C29, as stated: get_health_summary() (and with it get_stats() of every
\* source) leaves the registry as it found it, breakers and request buffers
\* included, and no returned entry says both that the circuit is open and
\* that the source is available.
C29_HealthReadOnly ==
    out.op = "get_health_summary" =>
        /\ sources = out.before.sources
        /\ \A i \in 1..Len(out.ret.sources) :
              out.ret.sources[i].circuit_state = OPEN => ~out.ret.sources[i].is_available

\* C30: record_success() on an OPEN breaker changes none of its fields, and
\* the only call that takes a breaker out of OPEN is an is_available() made
\* when recovery_timeout has passed since the last failure, which leaves it
\* HALF_OPEN.
C30_SuccessIgnoredWhileOpen ==
    /\ (cbLog.op = "record_success" /\ cbLog.before.state = OPEN) => cb = cbLog.before
    /\ (cbLog.before.state = OPEN /\ cb.state # OPEN) =>
          /\ cbLog.op = "is_available"
          /\ cb.state = HALF_OPEN
          /\ cbLog.at - cbLog.before.last_failure_time >= cb.recovery_timeout

\* A success has been recorded on an OPEN breaker whose recovery timeout
\* had already passed, and the breaker is still OPEN.
C30_Witness ==
    /\ cbLog.op = "record_success" /\ cbLog.before.state = OPEN
    /\ cb.state = OPEN /\ cb.failure_count > 0
    /\ cb.recovery_timeout > 0
    /\ cbLog.at - cb.last_failure_time >= cb.recovery_timeout

====
